---- MODULE Spec2Model ----
(***************************************************************************)
(* Model of teams/app.py: the teams / users / companies store, the three   *)
(* read queries, the JSON projection and the ingestion of a posted team.   *)
(*                                                                         *)
(* A table is the sequence of its rows in rowid order.  A JSON object is a *)
(* record, so a key the document lacks is a field the record lacks.        *)
(* A NULL foreign key is written NullId; ids handed out by the store start *)
(* at 1.                                                                   *)
(***************************************************************************)
EXTENDS Integers, Sequences, FiniteSets, TLC

VARIABLES teams, users, companies, session, request, pc, response, scan, ingested

vars == <<teams, users, companies, session, request, pc, response, scan, ingested>>

(***************************************************************************)
(* Bounds of the exploration: the number of teams that are ingested and   *)
(* the number of user rows that ingestion adds in all.                     *)
(***************************************************************************)
MaxIngest == 2
MaxUsers == 2

NullId == 0

(***************************************************************************)
(* The inputs that are enumerated.                                         *)
(***************************************************************************)
TeamNames == {"NWA", "GFUNK"}

QueryTeamNames == TeamNames \cup {"DoesNotExist"}

QueryCompanyNames == {"Ruthless_Records", "Def_Jam_Records", "Death_Row"}

GoodMembers ==
    { [name |-> "Ice Cube", email |-> "icecube@gmail.com", company |-> "Ruthless_Records"],
      [name |-> "MC Ren", email |-> "ren@hotmail.com", company |-> "Ruthless_Records"],
      [name |-> "Warren G", email |-> "warren@gmail.com", company |-> "Def_Jam_Records"] }

BadMembers ==
    { [email |-> "icecube@gmail.com", company |-> "Ruthless_Records"],
      [name |-> "Ice Cube", company |-> "Ruthless_Records"],
      [name |-> "Ice Cube", email |-> "icecube@gmail.com"] }

SeqsUpTo(S, n) == UNION { [1..k -> S] : k \in 0..n }

WellFormedDocs ==
    { [name |-> n, members |-> ms] : n \in TeamNames, ms \in SeqsUpTo(GoodMembers, MaxUsers) }

\* Documents that lack a field: the team's name, the member list, or one
\* field of the member entry that follows a prefix of complete entries.
MalformedDocs ==
    { [members |-> <<>>], [name |-> "NWA"] }
    \cup { [name |-> "NWA", members |-> Append(pre, b)] :
             pre \in SeqsUpTo({[name |-> "MC Ren", email |-> "ren@hotmail.com",
                                company |-> "Ruthless_Records"]}, MaxUsers - 1),
             b \in BadMembers }

Docs == WellFormedDocs \cup MalformedDocs

RECURSIVE MemberCount(_, _)
MemberCount(docs, i) ==
    IF i > Len(docs) THEN 0 ELSE Len(docs[i].members) + MemberCount(docs, i + 1)

HasKey(d, k) == k \in DOMAIN d

(***************************************************************************)
(* Schema: the relationships of Team, User and Company.                    *)
(***************************************************************************)
\* Team.members: the users whose team_id is the team's id, in table order.
members(team) == SelectSeq(users, LAMBDA u : u.team_id = team.id)

\* User.company (backref of Company.users): the row company_id points at.
\* It is None when HasCompany is false.
HasCompany(user) == \E i \in 1..Len(companies) : companies[i].id = user.company_id

company(user) == companies[CHOOSE i \in 1..Len(companies) : companies[i].id = user.company_id]

(***************************************************************************)
(* Query layer.                                                            *)
(***************************************************************************)
get_all_teams == teams

get_team_by_name_first(name) ==
    LET hits == SelectSeq(teams, LAMBDA t : t.name = name)
    IN  IF hits = <<>> THEN <<>> ELSE <<hits[1]>>

get_team_by_name(name) == SelectSeq(teams, LAMBDA t : t.name = name)

\* "team not in filtered_teams"
InSeq(x, s) == \E i \in 1..Len(s) : s[i] = x

\* The inner loop over team.members from position j on.  acc holds
\* filtered_teams and the ids of the members whose company name the loop
\* has compared so far.
RECURSIVE ScanMembersBreak(_, _, _, _, _)
ScanMembersBreak(team, ms, j, companyname, acc) ==
    IF j > Len(ms) THEN acc
    ELSE LET seen == [acc EXCEPT !.examined = Append(@, ms[j].id)]
         IN  IF company(ms[j]).name = companyname /\ ~InSeq(team, acc.filtered)
             THEN [seen EXCEPT !.filtered = Append(@, team)]
             ELSE ScanMembersBreak(team, ms, j + 1, companyname, seen)

RECURSIVE ScanMembersOr(_, _, _, _, _)
ScanMembersOr(team, ms, j, companyname, acc) ==
    IF j > Len(ms) THEN acc
    ELSE LET seen == [acc EXCEPT !.examined = Append(@, ms[j].id)]
         IN  ScanMembersOr(team, ms, j + 1, companyname,
                 IF company(ms[j]).name = companyname \/ ~InSeq(team, acc.filtered)
                 THEN [seen EXCEPT !.filtered = Append(@, team)]
                 ELSE seen)

RECURSIVE ScanMembersNoDedup(_, _, _, _, _)
ScanMembersNoDedup(team, ms, j, companyname, acc) ==
    IF j > Len(ms) THEN acc
    ELSE LET seen == [acc EXCEPT !.examined = Append(@, ms[j].id)]
         IN  ScanMembersNoDedup(team, ms, j + 1, companyname,
                 IF company(ms[j]).name = companyname
                 THEN [seen EXCEPT !.filtered = Append(@, team)]
                 ELSE seen)

RECURSIVE ScanMembers(_, _, _, _, _)
ScanMembers(team, ms, j, companyname, acc) ==
    IF j > Len(ms) THEN acc
    ELSE LET seen == [acc EXCEPT !.examined = Append(@, ms[j].id)]
         IN  ScanMembers(team, ms, j + 1, companyname,
                 IF company(ms[j]).name = companyname /\ ~InSeq(team, acc.filtered)
                 THEN [seen EXCEPT !.filtered = Append(@, team)]
                 ELSE seen)

\* The outer loop over the teams from position i on.
RECURSIVE ScanTeams(_, _, _, _)
ScanTeams(ts, i, companyname, acc) ==
    IF i > Len(ts) THEN acc
    ELSE ScanTeams(ts, i + 1, companyname,
                   ScanMembers(ts[i], members(ts[i]), 1, companyname, acc))

ScanByCompany(companyname) ==
    ScanTeams(get_all_teams, 1, companyname, [filtered |-> <<>>, examined |-> <<>>])

get_team_by_company(companyname) == ScanByCompany(companyname).filtered

(***************************************************************************)
(* Projection layer.  json.dumps is modelled by the text it writes for the *)
(* three shapes the module dumps: keys in insertion order, no white space. *)
(* None of the strings of the model needs an escape.                       *)
(***************************************************************************)
Quote(s) == "\"" \o s \o "\""

RECURSIVE JoinFrom(_, _)
JoinFrom(strs, i) ==
    IF i > Len(strs) THEN ""
    ELSE IF i = Len(strs) THEN strs[i]
    ELSE strs[i] \o "," \o JoinFrom(strs, i + 1)

DumpsArray(strs) == "[" \o JoinFrom(strs, 1) \o "]"

DumpsCompany(d) ==
    "{" \o Quote("name") \o ":" \o Quote(d.name) \o ","
        \o Quote("id") \o ":" \o ToString(d.id) \o "}"

DumpsUser(d) ==
    "{" \o Quote("id") \o ":" \o ToString(d.id) \o ","
        \o Quote("name") \o ":" \o Quote(d.name) \o ","
        \o Quote("company") \o ":" \o DumpsCompany(d.company) \o ","
        \o Quote("email") \o ":" \o Quote(d.email) \o "}"

DumpsUsers(ds) == DumpsArray([i \in 1..Len(ds) |-> DumpsUser(ds[i])])

DumpsTeam(d) ==
    "{" \o Quote("id") \o ":" \o ToString(d.id) \o ","
        \o Quote("name") \o ":" \o Quote(d.name) \o ","
        \o Quote("members") \o ":" \o DumpsUsers(d.members) \o "}"

DumpsTeams(ds) == DumpsArray([i \in 1..Len(ds) |-> DumpsTeam(ds[i])])

company_dict(c) == [name |-> c.name, id |-> c.id]

company_to_json(c, dump) ==
    IF dump THEN DumpsCompany(company_dict(c)) ELSE company_dict(c)

user_dict(user) ==
    [id |-> user.id, name |-> user.name,
     company |-> company_to_json(company(user), FALSE), email |-> user.email]

user_json(us) == [i \in 1..Len(us) |-> user_dict(us[i])]

users_to_json(us, dump) == IF dump THEN DumpsUsers(user_json(us)) ELSE user_json(us)

team_dict(team) ==
    [id |-> team.id, name |-> team.name, members |-> users_to_json(members(team), FALSE)]

team_json(ts) == [i \in 1..Len(ts) |-> team_dict(ts[i])]

teams_to_json(ts) == DumpsTeams(team_json(ts))

(***************************************************************************)
(* Ingestion layer.  Objects that are not persisted yet have no id; oid is *)
(* the identity of the Python object (its position among the objects of    *)
(* its class built by the call), which is what the default == compares.    *)
(***************************************************************************)
None == [oid |-> 0, name |-> "None"]

Team(name) == [name |-> name, members |-> <<>>]

Company(oid, name) == [oid |-> oid, name |-> name]

UserWithoutCompany(oid, name, email, c) ==
    [oid |-> oid, name |-> name, email |-> email, company |-> None]

\* User(name=..., email=..., company=company, team=team); the team side is
\* the append to team.members that the backref does (see BuildMembers).
User(oid, name, email, c) == [oid |-> oid, name |-> name, email |-> email, company |-> c]

GetOrCreateCompany(oid, name, cs) ==
    IF \E i \in 1..Len(cs) : cs[i].name = name
    THEN cs[CHOOSE i \in 1..Len(cs) : cs[i].name = name]
    ELSE Company(oid, name)

\* company = Company(name=member['company']): always a new object.
NewCompany(oid, name, cs) == Company(oid, name)

EmptySession == [teams |-> <<>>, companies |-> <<>>, users |-> <<>>]

\* session.add of a Company: an object already in the session is not added again.
add_company(sess, c) ==
    IF c = None \/ InSeq(c, sess.companies) THEN sess
    ELSE [sess EXCEPT !.companies = Append(@, c)]

add_user_again(sess, u) ==
    add_company([sess EXCEPT !.users = Append(@, u)], u.company)

\* session.add of a User; the save-update cascade reaches user.company.
add_user(sess, u) ==
    IF InSeq(u, sess.users) THEN sess
    ELSE add_company([sess EXCEPT !.users = Append(@, u)], u.company)

\* session.add_all(companies)
RECURSIVE add_all_companies(_, _, _)
add_all_companies(sess, cs, i) ==
    IF i > Len(cs) THEN sess ELSE add_all_companies(add_company(sess, cs[i]), cs, i + 1)

\* session.add_all(users)
RECURSIVE add_all_users(_, _, _)
add_all_users(sess, us, i) ==
    IF i > Len(us) THEN sess ELSE add_all_users(add_user(sess, us[i]), us, i + 1)

\* session.add of a Team; the save-update cascade reaches team.members.
add_team(sess, t) ==
    add_all_users([sess EXCEPT !.teams = Append(@, t)], t.members, 1)

\* The loop over json_data['members'] from entry i on.  acc holds the
\* locals team, companies and users, and raised once a key was missing.
RECURSIVE BuildMembers(_, _, _)
BuildMembers(ms, i, acc) ==
    IF i > Len(ms) THEN acc
    ELSE LET member == ms[i] IN
         IF ~HasKey(member, "company") THEN [acc EXCEPT !.raised = TRUE]
         ELSE LET c == NewCompany(i, member.company, acc.companies)
                  cs == IF ~InSeq(c, acc.companies)
                        THEN Append(acc.companies, c) ELSE acc.companies
              IN  IF ~HasKey(member, "name") \/ ~HasKey(member, "email")
                  THEN [acc EXCEPT !.companies = cs, !.raised = TRUE]
                  ELSE LET u == User(i, member.name, member.email, c)
                       IN  BuildMembers(ms, i + 1,
                               [team |-> [acc.team EXCEPT !.members = Append(@, u)],
                                companies |-> cs,
                                users |-> Append(acc.users, u),
                                raised |-> FALSE])

Stage(sess, built) ==
    add_all_users(add_all_companies(add_team(sess, built.team), built.companies, 1),
                  built.users, 1)

add_post_json_eager(json_data, sess) ==
    IF ~HasKey(json_data, "name") THEN [raised |-> TRUE, session |-> sess]
    ELSE LET team == Team(json_data.name)
             early == add_team(sess, team)
         IN  IF ~HasKey(json_data, "members") THEN [raised |-> TRUE, session |-> early]
             ELSE LET built == BuildMembers(json_data.members, 1,
                                   [team |-> team, companies |-> <<>>,
                                    users |-> <<>>, raised |-> FALSE])
                  IN  IF built.raised THEN [raised |-> TRUE, session |-> early]
                      ELSE [raised |-> FALSE, session |-> Stage(sess, built)]

\* The new state of the session, and whether the call raised KeyError.
add_post_json(json_data, sess) ==
    IF ~HasKey(json_data, "name") THEN [raised |-> TRUE, session |-> sess]
    ELSE LET team == Team(json_data.name)
         IN  IF ~HasKey(json_data, "members") THEN [raised |-> TRUE, session |-> sess]
             ELSE LET built == BuildMembers(json_data.members, 1,
                                   [team |-> team, companies |-> <<>>,
                                    users |-> <<>>, raised |-> FALSE])
                  IN  IF built.raised THEN [raised |-> TRUE, session |-> sess]
                      ELSE [raised |-> FALSE, session |-> Stage(sess, built)]

(***************************************************************************)
(* The flush of the commit that ends a request: the pending objects become *)
(* rows, in the order they entered the session, each with the next rowid   *)
(* of its table.                                                           *)
(***************************************************************************)
NextId(table) == IF table = <<>> THEN 1 ELSE table[Len(table)].id + 1

Index(x, s) == CHOOSE i \in 1..Len(s) : s[i] = x

team_id_upsert(u, sess) ==
    IF \E i \in 1..Len(sess.teams) : InSeq(u, sess.teams[i].members)
    THEN LET t == sess.teams[CHOOSE i \in 1..Len(sess.teams) : InSeq(u, sess.teams[i].members)]
             old == get_team_by_name(t.name)
         IN  IF old # <<>> THEN old[1].id ELSE NextId(teams) + Index(t, sess.teams) - 1
    ELSE NullId

\* users.team_id: the id given to the pending team that has u among its members.
team_id(u, sess) ==
    IF \E i \in 1..Len(sess.teams) : InSeq(u, sess.teams[i].members)
    THEN NextId(teams) + (CHOOSE i \in 1..Len(sess.teams) : InSeq(u, sess.teams[i].members)) - 1
    ELSE NullId

company_id_unshifted(u, sess) ==
    IF InSeq(u.company, sess.companies) THEN Index(u.company, sess.companies) ELSE NullId

\* users.company_id: the id given to the pending company u.company.
company_id(u, sess) ==
    IF InSeq(u.company, sess.companies)
    THEN NextId(companies) + Index(u.company, sess.companies) - 1
    ELSE NullId

FlushTeams(sess) ==
    [i \in 1..Len(sess.teams) |-> [id |-> NextId(teams) + i - 1, name |-> sess.teams[i].name]]

FlushCompanies(sess) ==
    [i \in 1..Len(sess.companies) |->
        [id |-> NextId(companies) + i - 1, name |-> sess.companies[i].name]]

FlushUsers(sess) ==
    [i \in 1..Len(sess.users) |->
        [id |-> NextId(users) + i - 1, name |-> sess.users[i].name,
         email |-> sess.users[i].email,
         team_id |-> team_id(sess.users[i], sess),
         company_id |-> company_id(sess.users[i], sess)]]

(***************************************************************************)
(* The store the service starts with: the empty tables of create_all, or   *)
(* the rows of add_test_data.                                              *)
(***************************************************************************)
NoRequest == [route |-> "", data |-> ""]

NoScan == [companyname |-> "", filtered |-> <<>>, examined |-> <<>>]

Quiet ==
    /\ session = EmptySession
    /\ request = NoRequest
    /\ pc = "idle"
    /\ response = ""
    /\ scan = NoScan
    /\ ingested = <<>>

InitEmpty ==
    /\ teams = <<>>
    /\ users = <<>>
    /\ companies = <<>>
    /\ Quiet

InitTestData ==
    /\ companies = << [id |-> 1, name |-> "Def_Jam_Records"],
                      [id |-> 2, name |-> "Ruthless_Records"] >>
    /\ teams = << [id |-> 1, name |-> "NWA"], [id |-> 2, name |-> "GFUNK"] >>
    /\ users = << [id |-> 1, name |-> "Ice Cube", email |-> "icecube@gmail.com",
                   team_id |-> 1, company_id |-> 2],
                  [id |-> 2, name |-> "MC Ren", email |-> "ren@hotmail.com",
                   team_id |-> 1, company_id |-> 2],
                  [id |-> 3, name |-> "Warren G", email |-> "warren@gmail.com",
                   team_id |-> 2, company_id |-> 1],
                  [id |-> 4, name |-> "Nate Dogg", email |-> "nate@gmail.com",
                   team_id |-> 2, company_id |-> 1] >>
    /\ Quiet

Init == InitEmpty \/ InitTestData

(***************************************************************************)
(* Request handlers.  Requests are served one at a time: a view function    *)
(* runs, then the teardown of its request.  A projection that reaches a    *)
(* member whose company is None raises AttributeError.                     *)
(***************************************************************************)
NoneCompany(ts) ==
    \E i \in 1..Len(ts) : \E j \in 1..Len(members(ts[i])) : ~HasCompany(members(ts[i])[j])

Respond(ts) == IF NoneCompany(ts) THEN "AttributeError" ELSE teams_to_json(ts)

\* GET /teams
Teams ==
    /\ pc = "idle"
    /\ response' = Respond(get_all_teams)
    /\ request' = [route |-> "/teams", data |-> ""]
    /\ pc' = "responded"
    /\ UNCHANGED <<teams, users, companies, session, scan, ingested>>

\* GET /team/<teamname>
TeamByName(teamname) ==
    /\ pc = "idle"
    /\ response' = Respond(get_team_by_name(teamname))
    /\ request' = [route |-> "/team", data |-> teamname]
    /\ pc' = "responded"
    /\ UNCHANGED <<teams, users, companies, session, scan, ingested>>

\* GET /company/<companyname>
TeamsByCompany(companyname) ==
    /\ pc = "idle"
    /\ IF NoneCompany(get_all_teams)
       THEN /\ response' = "AttributeError"
            /\ scan' = NoScan
       ELSE /\ response' = teams_to_json(get_team_by_company(companyname))
            /\ scan' = [companyname |-> companyname,
                        filtered |-> ScanByCompany(companyname).filtered,
                        examined |-> ScanByCompany(companyname).examined]
    /\ request' = [route |-> "/company", data |-> companyname]
    /\ pc' = "responded"
    /\ UNCHANGED <<teams, users, companies, session, ingested>>

\* POST /add/team, up to the return of the view function.
AddTeam(post_data) ==
    /\ pc = "idle"
    /\ post_data \in WellFormedDocs =>
           /\ Len(ingested) < MaxIngest
           /\ MemberCount(ingested, 1) + Len(post_data.members) <= MaxUsers
    /\ LET r == add_post_json(post_data, session)
       IN  /\ session' = r.session
           /\ pc' = IF r.raised THEN "raised" ELSE "staged"
           /\ response' = IF r.raised THEN "KeyError" ELSE "Added Team"
    /\ request' = [route |-> "/add/team", data |-> post_data]
    /\ UNCHANGED <<teams, users, companies, scan, ingested>>

\* The teardown of a request: commit unless the view raised, then drop the
\* session.  The response has been sent.
Teardown ==
    /\ pc # "idle"
    /\ IF pc = "staged"
       THEN /\ teams' = teams \o FlushTeams(session)
            /\ companies' = companies \o FlushCompanies(session)
            /\ users' = users \o FlushUsers(session)
            /\ ingested' = Append(ingested, request.data)
       ELSE UNCHANGED <<teams, users, companies, ingested>>
    /\ session' = EmptySession
    /\ request' = NoRequest
    /\ pc' = "idle"
    /\ response' = ""
    /\ scan' = NoScan

Next ==
    \/ Teams
    \/ \E teamname \in QueryTeamNames : TeamByName(teamname)
    \/ \E companyname \in QueryCompanyNames : TeamsByCompany(companyname)
    \/ \E post_data \in Docs : AddTeam(post_data)
    \/ Teardown

Spec == Init /\ [][Next]_vars

(***************************************************************************)
(* Properties.                                                             *)
(***************************************************************************)
Range(s) == { s[i] : i \in 1..Len(s) }

NoDuplicates(s) == \A i, j \in 1..Len(s) : i # j => s[i] # s[j]

NamesAndEmails(ms) == [j \in 1..Len(ms) |-> <<ms[j].name, ms[j].email>>]

Matching(team, companyname) ==
    { j \in 1..Len(members(team)) : company(members(team)[j]).name = companyname }

\* C1: for every document D that was ingested and persisted,
\* get_team_by_name(D.name) returns a team whose projected members have the
\* names and emails of D.members, in the same order and number.
C1_RoundTripByName ==
    \A i \in 1..Len(ingested) :
        \E d \in Range(team_json(get_team_by_name(ingested[i].name))) :
            NamesAndEmails(d.members) = NamesAndEmails(ingested[i].members)

\* A two-member document was persisted under a name that another team has too.
C1_Witness ==
    /\ pc = "idle"
    /\ \E i \in 1..Len(ingested) :
          /\ Len(ingested[i].members) = 2
          /\ Len(get_team_by_name(ingested[i].name)) >= 2

\* C2: get_team_by_company(c) holds a team exactly when one of its members
\* has a company named c, and holds no team twice.
C2_ByCompanyExactOnce ==
    \A c \in QueryCompanyNames :
        LET r == get_team_by_company(c)
        IN  /\ Range(r) = { t \in Range(teams) : Matching(t, c) # {} }
            /\ NoDuplicates(r)

\* GET /company/c was answered for a store, grown by ingestion, in which
\* an ingested team has two members of company c.
C2_Witness ==
    /\ pc = "responded"
    /\ request.route = "/company"
    /\ ingested # <<>>
    /\ \E t \in Range(scan.filtered) :
          /\ t.id = teams[Len(teams)].id
          /\ Cardinality(Matching(t, request.data)) >= 2

\* C3: a lookup that matches nothing returns the empty sequence, whose
\* JSON text is [], and the handler answers with that text.
C3_NoMatchIsEmpty ==
    /\ \A c \in QueryCompanyNames :
          (\A i \in 1..Len(users) : company(users[i]).name # c) =>
              /\ get_team_by_company(c) = <<>>
              /\ teams_to_json(get_team_by_company(c)) = "[]"
              /\ (pc = "responded" /\ request = [route |-> "/company", data |-> c])
                     => response = "[]"
    /\ \A n \in QueryTeamNames :
          (\A i \in 1..Len(teams) : teams[i].name # n) =>
              /\ get_team_by_name(n) = <<>>
              /\ teams_to_json(get_team_by_name(n)) = "[]"
              /\ (pc = "responded" /\ request = [route |-> "/team", data |-> n])
                     => response = "[]"

\* A company that no user has was asked for while the store holds teams.
C3_Witness ==
    /\ pc = "responded"
    /\ request = [route |-> "/company", data |-> "Death_Row"]
    /\ teams # <<>>
    /\ ingested # <<>>
    /\ response = "[]"

\* C4: a call that succeeds stages one team and one user per member entry;
\* its commit adds one team row and one user row per member entry, and no
\* other step changes the number of team or user rows.
C4_OneTeamOneUserPerMember ==
    [][ /\ pc' = "staged" =>
             /\ Len(session'.teams) = 1
             /\ Len(session'.users) = Len(request'.data.members)
        /\ IF pc = "staged"
           THEN /\ Len(teams') = Len(teams) + 1
                /\ Len(users') = Len(users) + Len(request.data.members)
           ELSE /\ Len(teams') = Len(teams)
                /\ Len(users') = Len(users) ]_vars

\* A document without members and a document with two were both persisted.
C4_Witness ==
    /\ pc = "idle"
    /\ \E i, j \in 1..Len(ingested) :
          /\ Len(ingested[i].members) = 0
          /\ Len(ingested[j].members) = 2

\* C5: for every document D that was ingested and persisted, the projection
\* of get_all_teams has a team whose members' embedded company names are,
\* in order, the companies of D.members.
C5_RoundTripCompanies ==
    \A i \in 1..Len(ingested) :
        \E d \in Range(team_json(get_all_teams)) :
            [j \in 1..Len(d.members) |-> d.members[j].company.name]
                = [j \in 1..Len(ingested[i].members) |-> ingested[i].members[j].company]

\* A document whose two members name different companies was persisted on
\* top of other rows.
C5_Witness ==
    /\ pc = "idle"
    /\ Len(teams) >= 3
    /\ \E i \in 1..Len(ingested) :
          /\ Len(ingested[i].members) = 2
          /\ ingested[i].members[1].company # ingested[i].members[2].company

\* C6: every user row references exactly one team row and exactly one
\* company row; no reference is NULL or dangling.
C6_UserReferencesExist ==
    \A i \in 1..Len(users) :
        /\ Cardinality({ k \in 1..Len(teams) : teams[k].id = users[i].team_id }) = 1
        /\ Cardinality({ k \in 1..Len(companies) : companies[k].id = users[i].company_id }) = 1

\* Users were persisted by an ingestion.
C6_Witness ==
    /\ pc = "idle"
    /\ \E i \in 1..Len(ingested) : Len(ingested[i].members) = 2
    /\ Len(users) >= 2

\* C7: a call that succeeds stages one company per member entry; its commit
\* adds one company row per member entry, each new user row points at a
\* new company row of its own that bears the member's company name, and no
\* other step changes the number of company rows.
C7_NoCompanyDedup ==
    [][ /\ pc' = "staged" => Len(session'.companies) = Len(request'.data.members)
        /\ IF pc = "staged"
           THEN LET ms == request.data.members
                    new == [j \in 1..Len(ms) |-> users'[Len(users) + j]]
                    old == { companies[k].id : k \in 1..Len(companies) }
                IN  /\ Len(companies') = Len(companies) + Len(ms)
                    /\ \A j \in 1..Len(ms) :
                          /\ new[j].company_id \notin old
                          /\ \E k \in 1..Len(companies') :
                                /\ companies'[k].id = new[j].company_id
                                /\ companies'[k].name = ms[j].company
                          /\ \A l \in 1..Len(ms) :
                                l # j => new[l].company_id # new[j].company_id
           ELSE Len(companies') = Len(companies) ]_vars

\* A document whose two members name the same company was persisted into a
\* store that already had a company of that name.
C7_Witness ==
    /\ pc = "idle"
    /\ \E i \in 1..Len(ingested) :
          /\ Len(ingested[i].members) = 2
          /\ ingested[i].members[1].company = ingested[i].members[2].company
          /\ Cardinality({ k \in 1..Len(companies) :
                             companies[k].name = ingested[i].members[1].company }) >= 3

\* C8: a call that raises leaves the session and the store as they were,
\* and so does the teardown of its request; a call that succeeds stages
\* the team, one company per member and one user per member together.
C8_AllOrNothing ==
    [][ /\ pc' = "raised" =>
             /\ session' = EmptySession
             /\ UNCHANGED <<teams, users, companies>>
        /\ pc = "raised" =>
             /\ session' = EmptySession
             /\ UNCHANGED <<teams, users, companies>>
        /\ pc' = "staged" =>
             /\ Len(session'.teams) = 1
             /\ Len(session'.companies) = Len(request'.data.members)
             /\ Len(session'.users) = Len(request'.data.members)
             /\ UNCHANGED <<teams, users, companies>> ]_vars

\* A call raised at its second member entry, after a complete first one.
C8_Witness ==
    /\ pc = "raised"
    /\ HasKey(request.data, "members")
    /\ Len(request.data.members) = 2
    /\ teams # <<>>

\* C9: no step changes or removes a row that exists: every team, user and
\* company row keeps its place, its id and its fields, and every existing
\* team keeps its member list.
C9_InsertOnly ==
    [][ /\ Len(teams') >= Len(teams)
        /\ Len(users') >= Len(users)
        /\ Len(companies') >= Len(companies)
        /\ \A i \in 1..Len(teams) : teams'[i] = teams[i]
        /\ \A i \in 1..Len(users) : users'[i] = users[i]
        /\ \A i \in 1..Len(companies) : companies'[i] = companies[i]
        /\ \A i \in 1..Len(teams) :
              SelectSeq(users', LAMBDA u : u.team_id = teams[i].id) = members(teams[i]) ]_vars

\* A team with members was persisted under the name of an older team.
C9_Witness ==
    /\ pc = "idle"
    /\ \E i \in 1..Len(ingested) :
          /\ Len(ingested[i].members) >= 1
          /\ Len(get_team_by_name(ingested[i].name)) >= 2

\* The ids of the members of the teams from position i on, team by team.
RECURSIVE MemberIdsFrom(_, _)
MemberIdsFrom(ts, i) ==
    IF i > Len(ts) THEN <<>>
    ELSE [j \in 1..Len(members(ts[i])) |-> members(ts[i])[j].id] \o MemberIdsFrom(ts, i + 1)

FirstMatch(team, companyname) ==
    CHOOSE j \in Matching(team, companyname) : \A k \in Matching(team, companyname) : j <= k

\* C10 as stated: once a member of a team has matched and the team is in
\* the result, no later member of that team is examined.
C10_ShortCircuit ==
    (pc = "responded" /\ request.route = "/company") =>
        \A t \in Range(scan.filtered) :
            \A j \in 1..Len(members(t)) :
                j > FirstMatch(t, scan.companyname) =>
                    members(t)[j].id \notin Range(scan.examined)

\* C10, amended: get_team_by_company examines every member of every team
\* once, in order, also the members that follow the first match of their
\* team; the later matches do not add the team again.
C10_ExaminesEveryMember ==
    (pc = "responded" /\ request.route = "/company") =>
        /\ scan.examined = MemberIdsFrom(teams, 1)
        /\ NoDuplicates(scan.filtered)

\* A team of the result, persisted by ingestion, whose first member matched
\* and which has a second member.
C10_Witness ==
    /\ pc = "responded"
    /\ request.route = "/company"
    /\ ingested # <<>>
    /\ \E t \in Range(scan.filtered) :
          /\ t.id = teams[Len(teams)].id
          /\ FirstMatch(t, scan.companyname) = 1
          /\ Len(members(t)) >= 2

====
